---- MODULE Spec2Model ----
(***************************************************************************)
(* State machine of the AI Image Enhancer: the App component (its React    *)
(* state, its handlers and the controls it renders), the file reads and    *)
(* enhancement requests in flight, and the Gemini enhancement client.      *)
(*                                                                         *)
(* A JavaScript string is a sequence of pieces (Pieces \o Pieces is        *)
(* concatenation).  Texts that the code searches character by character    *)
(* are sequences of one-character pieces.                                  *)
(***************************************************************************)
EXTENDS Integers, Sequences, FiniteSets, TLC

VARIABLES originalImage, originalMimeType, enhancedImage, appState, error,
          brightness, contrast, noiseReduction, artisticEffect,
          readers, requests, filesSelected, callsIssued, resetSince,
          remoteResult, promise,
          computedFilter, link

vars == <<originalImage, originalMimeType, enhancedImage, appState, error,
          brightness, contrast, noiseReduction, artisticEffect,
          readers, requests, filesSelected, callsIssued, resetSince,
          remoteResult, promise, computedFilter, link>>

settings == <<brightness, contrast, noiseReduction, artisticEffect>>
inFlight == <<readers, requests, filesSelected, callsIssued, resetSince>>
app == <<originalImage, originalMimeType, enhancedImage, appState, error,
         settings, inFlight>>

(* The client taken on its own: remoteResult holds what the remote call of *)
(* one enhanceImageWithGemini call comes back with, promise how the call   *)
(* settled; both are empty while the App runs.                             *)
client == <<remoteResult, promise>>

(* What the page shows besides the React state: computedFilter is the CSS   *)
(* filter ImageComparator puts on the preview (null while the comparator is *)
(* not rendered), link holds the anchor the last download clicked (it is    *)
(* empty before the first download).                                        *)
page == <<computedFilter, link>>

(* Bounds of the exploration: the files the user selects in one run, and the *)
(* calls of the enhancement client in one run.                              *)
MaxFiles == 2
MaxCalls == 2

(* Bounds of the responses the client is tried on: the parts of a candidate *)
(* and the candidates of a response.                                        *)
MaxParts == 2
MaxCandidates == 2

(* JavaScript null: a value different from every string the program builds. *)
NULL == <<"<null>">>

(* The empty string. *)
EMPTY == << >>

(* !x for a value that is null or a string. *)
Falsy(x) == x = NULL \/ x = EMPTY

AppStates == {"idle", "loading", "success", "error"}
ArtisticEffects == {"none", "vintage", "bw", "sepia", "sketch", "oil-painting", "cartoon"}

(* Values the controls can be set to while exploring the state machine. *)
BrightnessChoices == {100, 120}
ContrastChoices == {100, 80}
NoiseReductionChoices == {0, 30}
EffectChoices == {"none", "sepia"}

DefaultBrightness == 100
DefaultContrast == 100
DefaultNoiseReduction == 0
DefaultEffect == "none"

(***************************************************************************)
(* Files the user can hand to handleFileSelect: a PNG image, and a file    *)
(* whose type the browser does not know.  file.type is the MIME type the   *)
(* browser derives for the file, the empty string when it knows none.      *)
(***************************************************************************)
Files == { [type |-> <<"image/png">>, payload |-> "AAAA"],
           [type |-> EMPTY, payload |-> "CCCC"] }

(* reader.result of a successful readAsDataURL(file). *)
ReadAsDataURL(file) ==
    <<"data:">> \o (IF file.type = EMPTY THEN <<"application/octet-stream">> ELSE file.type)
               \o <<";base64", ",">> \o <<file.payload>>

(* s.split(','): the pieces of s between the commas. *)
RECURSIVE Split(_)
Split(s) ==
    IF \A i \in 1..Len(s) : s[i] # ","
    THEN <<s>>
    ELSE LET k == CHOOSE i \in 1..Len(s) : s[i] = "," /\ \A j \in 1..(i-1) : s[j] # ","
         IN <<SubSeq(s, 1, k-1)>> \o Split(SubSeq(s, k+1, Len(s)))

(* originalImage.split(',')[1], undefined when there is no comma. *)
Base64Data(image) ==
    LET p == Split(image) IN IF Len(p) >= 2 THEN p[2] ELSE NULL

(***************************************************************************)
(* Prompt construction of handleEnhanceClick.                              *)
(***************************************************************************)
BasePrompt == <<"Fix this old and damaged photo. Improve its overall quality, and adjust the lighting and contrast to make it look more vibrant and clear.">>

EffectClause(effect) ==
    CASE effect = "vintage" -> <<" Apply a vintage effect to the image.">>
      [] effect = "bw" -> <<" Convert the image to artistic black and white, preserving details.">>
      [] effect = "sepia" -> <<" Apply a warm sepia tone to the image.">>
      [] effect = "sketch" -> <<" Turn the image into a pencil sketch, emphasizing lines and shading.">>
      [] effect = "oil-painting" -> <<" Make the image look like an oil painting with visible brush strokes and rich colors.">>
      [] effect = "cartoon" -> <<" Apply a cartoon effect to the image with vibrant colors and bold outlines.">>
      [] OTHER -> << >>

(* The prompt with the contrast clause ahead of the brightness clause. *)
BuildPrompt_ContrastFirst(b, c, n, effect) ==
    BasePrompt
    \o (IF c # 100 THEN <<" Adjust the contrast to be around ", ToString(c), "%.">> ELSE << >>)
    \o (IF b # 100 THEN <<" Adjust the brightness to be around ", ToString(b), "%.">> ELSE << >>)
    \o (IF n > 0 THEN <<" Apply noise reduction at an intensity of about ", ToString(n), "%.">> ELSE << >>)
    \o EffectClause(effect)

BuildPrompt(b, c, n, effect) ==
    BasePrompt
    \o (IF b # 100 THEN <<" Adjust the brightness to be around ", ToString(b), "%.">> ELSE << >>)
    \o (IF c # 100 THEN <<" Adjust the contrast to be around ", ToString(c), "%.">> ELSE << >>)
    \o (IF n > 0 THEN <<" Apply noise reduction at an intensity of about ", ToString(n), "%.">> ELSE << >>)
    \o EffectClause(effect)


(***************************************************************************)
(* The remote call ai.models.generateContent: what it can come back with.  *)
(* A part, a candidate and a response carry only the fields the service    *)
(* filled in; an absent field reads as undefined.                          *)
(***************************************************************************)
TextPart == [text |-> "Here is your image."]
ImagePart(mimeType, data) == [inlineData |-> [mimeType |-> mimeType, data |-> data]]
Candidate(parts) == [content |-> [parts |-> parts]]

PngPart == ImagePart("image/png", "PPPP")
JpegPart == ImagePart("image/jpeg", "JJJJ")

Responses ==
    { [promptFeedback |-> "blocked"],
      [candidates |-> << >>],
      [candidates |-> <<[finishReason |-> "SAFETY"]>>],
      [candidates |-> <<[content |-> [role |-> "model"]]>>],
      [candidates |-> <<Candidate(<<TextPart>>)>>],
      [candidates |-> <<Candidate(<<PngPart>>)>>],
      [candidates |-> <<Candidate(<<TextPart, JpegPart>>)>>],
      [candidates |-> <<Candidate(<<JpegPart, PngPart>>)>>],
      [candidates |-> <<Candidate(<<TextPart>>), Candidate(<<PngPart>>)>>] }

(***************************************************************************)
(* Values the remote call can throw.  status is the HTTP status of the     *)
(* failure (0: no HTTP exchange took place), isError whether the thrown    *)
(* value is an instance of Error, message its text.                        *)
(***************************************************************************)
Thrown ==
    { [isError |-> TRUE, status |-> 429, message |-> <<"4", "2", "9", " ", "q", "u", "o", "t", "a">>],
      [isError |-> TRUE, status |-> 500, message |-> <<"5", "0", "0", " ", "i", "n", "t", "e", "r", "n", "a", "l">>],
      [isError |-> TRUE, status |-> 400, message |-> <<"4", "0", "0", " ", "s", "i", "z", "e", " ", "4", "2", "9", "4", "9", "6", "7", "2", "9", "6">>],
      [isError |-> TRUE, status |-> 0, message |-> <<"f", "e", "t", "c", "h", " ", "f", "a", "i", "l", "e", "d">>],
      [isError |-> FALSE, status |-> 503, message |-> EMPTY] }

RemoteOutcomes ==
    { [kind |-> "response", response |-> r] : r \in Responses }
    \cup { [kind |-> "throw", thrown |-> t] : t \in Thrown }

(* Every response of at most MaxCandidates candidates of at most MaxParts parts. *)
PartLists == UNION { [1..n -> {TextPart, PngPart, JpegPart}] : n \in 0..MaxParts }
CandidateChoices ==
    { Candidate(parts) : parts \in PartLists }
    \cup { [finishReason |-> "SAFETY"], [content |-> [role |-> "model"]] }
AllResponses ==
    { [promptFeedback |-> "blocked"] }
    \cup { [candidates |-> c] : c \in UNION { [1..n -> CandidateChoices] : n \in 0..MaxCandidates } }

(* What the client is tried on when taken on its own. *)
ClientInputs ==
    { [kind |-> "response", response |-> r] : r \in AllResponses }
    \cup { [kind |-> "throw", thrown |-> t] : t \in Thrown }

(***************************************************************************)
(* The enhancement client, enhanceImageWithGemini.                         *)
(***************************************************************************)
NoImageMessage == <<"N", "o", " ", "i", "m", "a", "g", "e", " ", "f", "o", "u", "n", "d", " ", "i", "n", " ", "t", "h", "e", " ", "A", "P", "I", " ", "r", "e", "s", "p", "o", "n", "s", "e", ".">>
RateLimitedMessage == <<"Request limit exceeded. Please try again later.">>
FailedMessage == <<"Failed to enhance the image. Please check the console for more details.">>

(* s.includes(sub) *)
Includes(s, sub) ==
    \E i \in 0..(Len(s) - Len(sub)) : SubSeq(s, i + 1, i + Len(sub)) = sub

(* A data URL that declares image/png whatever the part's MIME type is. *)
DataUrl_AlwaysPng(mimeType, data) == <<"data:", "image/png", ";base64", ",", data>>

(* `data:${mimeType};base64,${data}` *)
DataUrl(mimeType, data) == <<"data:", mimeType, ";base64", ",", data>>

(* response.candidates?.[0]?.content?.parts, the empty list when undefined. *)
FirstCandidateParts(response) ==
    IF /\ "candidates" \in DOMAIN response
       /\ Len(response.candidates) >= 1
       /\ "content" \in DOMAIN response.candidates[1]
       /\ "parts" \in DOMAIN response.candidates[1].content
    THEN response.candidates[1].content.parts
    ELSE << >>

HasInlineData(part) == "inlineData" \in DOMAIN part

(* A find that keeps the last part with inline data instead of the first. *)
FindImagePart_Last(response) ==
    LET found == SelectSeq(FirstCandidateParts(response), HasInlineData)
    IN IF found = << >> THEN << >> ELSE <<found[Len(found)]>>

(* ...?.find(part => part.inlineData): << >> when nothing is found, else *)
(* the one-element list of the first part that has inline data.          *)
FindImagePart(response) ==
    LET found == SelectSeq(FirstCandidateParts(response), HasInlineData)
    IN IF found = << >> THEN << >> ELSE <<Head(found)>>

(* The try block: what it returns, or the value it throws. *)
TryBlock(remote) ==
    IF remote.kind = "throw"
    THEN [returned |-> FALSE, thrown |-> remote.thrown]
    ELSE LET imageResponsePart == FindImagePart(remote.response)
         IN IF imageResponsePart # << >>
            THEN [returned |-> TRUE,
                  value |-> DataUrl(imageResponsePart[1].inlineData.mimeType,
                                    imageResponsePart[1].inlineData.data)]
            ELSE [returned |-> FALSE,
                  thrown |-> [isError |-> TRUE, message |-> NoImageMessage]]

(* The catch block: the Error it throws for the caught value. *)
CatchBlock(caught) ==
    IF caught.isError /\ Includes(caught.message, <<"4", "2", "9">>)
    THEN [isError |-> TRUE, message |-> RateLimitedMessage]
    ELSE [isError |-> TRUE, message |-> FailedMessage]

(* How the promise of enhanceImageWithGemini settles. *)
enhanceImageWithGemini(remote) ==
    LET t == TryBlock(remote)
    IN IF t.returned
       THEN [resolved |-> TRUE, value |-> t.value]
       ELSE [resolved |-> FALSE, error |-> CatchBlock(t.thrown)]


(***************************************************************************)
(* ImageComparator: the CSS filter of the preview.                         *)
(***************************************************************************)
(* The filter whose sketch effect lacks its last operation. *)
ComputeFilter_SketchShort(b, c, effect) ==
    <<"brightness(", ToString(b), "%)", " ", "contrast(", ToString(c), "%)">>
    \o CASE effect = "vintage" -> <<" ", "sepia(60%)">>
          [] effect = "bw" -> <<" ", "grayscale(100%)">>
          [] effect = "sepia" -> <<" ", "sepia(100%)">>
          [] effect = "sketch" -> <<" ", "grayscale(100%)", " ", "contrast(150%)">>
          [] effect = "oil-painting" -> <<" ", "saturate(180%)", " ", "contrast(130%)">>
          [] effect = "cartoon" -> <<" ", "saturate(200%)", " ", "contrast(150%)">>
          [] OTHER -> << >>

(* The useMemo callback of computedFilter. *)
ComputeFilter(b, c, effect) ==
    <<"brightness(", ToString(b), "%)", " ", "contrast(", ToString(c), "%)">>
    \o CASE effect = "vintage" -> <<" ", "sepia(60%)">>
          [] effect = "bw" -> <<" ", "grayscale(100%)">>
          [] effect = "sepia" -> <<" ", "sepia(100%)">>
          [] effect = "sketch" -> <<" ", "grayscale(100%)", " ", "contrast(150%)", " ", "brightness(110%)">>
          [] effect = "oil-painting" -> <<" ", "saturate(180%)", " ", "contrast(130%)">>
          [] effect = "cartoon" -> <<" ", "saturate(200%)", " ", "contrast(150%)">>
          [] OTHER -> << >>

(***************************************************************************)
(* The App component.  React is the record of its state hooks; a handler   *)
(* is the record it leaves after all of its setState calls, and SetState   *)
(* commits that record as the next render's state and renders the preview. *)
(***************************************************************************)
React ==
    [originalImage |-> originalImage, originalMimeType |-> originalMimeType,
     enhancedImage |-> enhancedImage, appState |-> appState, error |-> error,
     brightness |-> brightness, contrast |-> contrast,
     noiseReduction |-> noiseReduction, artisticEffect |-> artisticEffect]

SetState(s) ==
    /\ originalImage' = s.originalImage
    /\ originalMimeType' = s.originalMimeType
    /\ enhancedImage' = s.enhancedImage
    /\ appState' = s.appState
    /\ error' = s.error
    /\ brightness' = s.brightness
    /\ contrast' = s.contrast
    /\ noiseReduction' = s.noiseReduction
    /\ artisticEffect' = s.artisticEffect
    /\ computedFilter' = IF Falsy(s.originalImage) THEN NULL
                         ELSE ComputeFilter(s.brightness, s.contrast, s.artisticEffect)

ReadErrorMessage == <<"Error reading the file.">>
SelectFirstMessage == <<"Please select an image first.">>
UnexpectedMessage == <<"An unexpected error occurred while enhancing the image.">>

(* Reset Settings that also puts the status back to idle. *)
handleResetSettings_StatusIdle(s) ==
    [s EXCEPT !.brightness = 100, !.contrast = 100, !.noiseReduction = 0,
              !.artisticEffect = "none", !.appState = "idle"]

(* Reset Settings that forgets the artistic effect. *)
handleResetSettings_EffectKept(s) ==
    [s EXCEPT !.brightness = 100, !.contrast = 100, !.noiseReduction = 0]

handleResetSettings(s) ==
    [s EXCEPT !.brightness = DefaultBrightness, !.contrast = DefaultContrast,
              !.noiseReduction = DefaultNoiseReduction, !.artisticEffect = DefaultEffect]

(* reader.onloadend; result is reader.result, null after a failed read. *)
onloadend(s, file, result) ==
    handleResetSettings([s EXCEPT !.originalImage = result,
                                  !.originalMimeType = file.type,
                                  !.enhancedImage = NULL,
                                  !.error = NULL,
                                  !.appState = "idle"])

(* reader.onerror *)
onerror(s) == [s EXCEPT !.error = ReadErrorMessage, !.appState = "error"]

(* A guard that tests the image only: !originalImage *)
NoImageSelected_ImageOnly(image, mimeType) == Falsy(image)

(* The guard of handleEnhanceClick: !originalImage || !originalMimeType *)
NoImageSelected(image, mimeType) == Falsy(image) \/ Falsy(mimeType)

(* handleEnhanceClick up to its await. *)
enhanceClicked(s) ==
    IF NoImageSelected(s.originalImage, s.originalMimeType)
    THEN [s EXCEPT !.error = SelectFirstMessage, !.appState = "error"]
    ELSE [s EXCEPT !.appState = "loading", !.error = NULL, !.enhancedImage = NULL]

(* The arguments handleEnhanceClick passes to enhanceImageWithGemini. *)
EnhanceCall(s, id) ==
    [id |-> id,
     base64ImageData |-> Base64Data(s.originalImage),
     mimeType |-> s.originalMimeType,
     prompt |-> BuildPrompt(s.brightness, s.contrast, s.noiseReduction, s.artisticEffect)]

(* A continuation that stores the result and leaves the status alone. *)
enhanceResolved_StatusKept(s, result) == [s EXCEPT !.enhancedImage = result]

(* handleEnhanceClick after the await: the promise resolved with result. *)
enhanceResolved(s, result) ==
    [s EXCEPT !.enhancedImage = result, !.appState = "success"]

(* err instanceof Error ? err.message : '...' *)
ErrorText(err) == IF err.isError THEN err.message ELSE UnexpectedMessage

(* A catch branch that stores the message and leaves the status alone. *)
enhanceRejected_StatusKept(s, err) == [s EXCEPT !.error = ErrorText(err)]

(* handleEnhanceClick after the await: the promise rejected with err. *)
enhanceRejected(s, err) ==
    [s EXCEPT !.error = ErrorText(err), !.appState = "error"]

handleReset(s) ==
    handleResetSettings([s EXCEPT !.originalImage = NULL,
                                  !.enhancedImage = NULL,
                                  !.originalMimeType = NULL,
                                  !.error = NULL,
                                  !.appState = "idle"])

(* handleDownload with Date.now() = now: the anchor it clicks. *)
(* The download named after the MIME type its data URL declares. *)
handleDownload_ByMimeType(image, now) ==
    [href |-> image,
     download |-> <<"enhanced-image-", ToString(now),
                    IF image[2] = "image/jpeg" THEN ".jpg" ELSE ".png">>]

handleDownload(image, now) ==
    [href |-> image, download |-> <<"enhanced-image-", ToString(now), ".png">>]

(* What the component renders. *)
UploaderShown == Falsy(originalImage)
EditorShown == ~ Falsy(originalImage)
EnhanceButtonShown == EditorShown /\ appState # "loading"
DownloadButtonShown == EditorShown /\ appState = "success" /\ ~ Falsy(enhancedImage)

(***************************************************************************)
(* Actions.                                                                *)
(***************************************************************************)
InitApp ==
    /\ originalImage = NULL
    /\ originalMimeType = NULL
    /\ enhancedImage = NULL
    /\ appState = "idle"
    /\ error = NULL
    /\ brightness = DefaultBrightness
    /\ contrast = DefaultContrast
    /\ noiseReduction = DefaultNoiseReduction
    /\ artisticEffect = DefaultEffect
    /\ readers = {}
    /\ requests = {}
    /\ filesSelected = 0
    /\ callsIssued = 0
    /\ resetSince = {}
    /\ computedFilter = NULL
    /\ link = << >>

Init == InitApp /\ remoteResult = << >> /\ promise = << >>

(* The user hands a file to the uploader: handleFileSelect starts a read.  *)
(* readers holds the files whose read has not finished.                   *)
HandleFileSelect(file) ==
    /\ UploaderShown
    /\ file \notin readers
    /\ filesSelected < MaxFiles
    /\ filesSelected' = filesSelected + 1
    /\ readers' = readers \cup {file}
    /\ UNCHANGED <<originalImage, originalMimeType, enhancedImage, appState, error,
                   settings, requests, callsIssued, resetSince, computedFilter>>
    /\ UNCHANGED <<client, link>>

(* A read finishes successfully: the reader fires load, then loadend. *)
ReadSucceeds(file) ==
    /\ file \in readers
    /\ SetState(onloadend(React, file, ReadAsDataURL(file)))
    /\ readers' = readers \ {file}
    /\ UNCHANGED <<requests, filesSelected, callsIssued, resetSince>>
    /\ UNCHANGED <<client, link>>

(* A read fails: the reader fires error, then loadend, in one task. *)
ReadFails(file) ==
    /\ file \in readers
    /\ SetState(onloadend(onerror(React), file, NULL))
    /\ readers' = readers \ {file}
    /\ UNCHANGED <<requests, filesSelected, callsIssued, resetSince>>
    /\ UNCHANGED <<client, link>>

(* The user presses Enhance Image. *)
HandleEnhanceClick ==
    /\ EnhanceButtonShown
    /\ IF NoImageSelected(originalImage, originalMimeType)
       THEN UNCHANGED <<requests, callsIssued>>
       ELSE /\ callsIssued < MaxCalls
            /\ callsIssued' = callsIssued + 1
            /\ requests' = requests \cup {EnhanceCall(React, callsIssued + 1)}
    /\ SetState(enhanceClicked(React))
    /\ UNCHANGED <<readers, filesSelected, resetSince>>
    /\ UNCHANGED <<client, link>>

(* The promise of call rq has settled and the awaiting handler resumes. *)
EnhanceSettled(rq, settled) ==
    /\ rq \in requests
    /\ IF settled.resolved
       THEN SetState(enhanceResolved(React, settled.value))
       ELSE SetState(enhanceRejected(React, settled.error))
    /\ requests' = requests \ {rq}
    /\ resetSince' = resetSince \ {rq.id}
    /\ UNCHANGED <<readers, filesSelected, callsIssued>>
    /\ UNCHANGED <<client, link>>

(* The remote call of rq comes back, the client settles its promise. *)
EnhanceSettles(rq, remote) == EnhanceSettled(rq, enhanceImageWithGemini(remote))

(* The user presses Start Over. *)
HandleReset ==
    /\ EditorShown
    /\ SetState(handleReset(React))
    /\ resetSince' = {rq.id : rq \in requests}
    /\ UNCHANGED <<readers, requests, filesSelected, callsIssued>>
    /\ UNCHANGED <<client, link>>

(* The user presses Reset Settings. *)
HandleResetSettings ==
    /\ EditorShown
    /\ SetState(handleResetSettings(React))
    /\ UNCHANGED inFlight
    /\ UNCHANGED <<client, link>>

SetBrightness(v) ==
    /\ EditorShown
    /\ SetState([React EXCEPT !.brightness = v])
    /\ UNCHANGED inFlight
    /\ UNCHANGED <<client, link>>

SetContrast(v) ==
    /\ EditorShown
    /\ SetState([React EXCEPT !.contrast = v])
    /\ UNCHANGED inFlight
    /\ UNCHANGED <<client, link>>

SetNoiseReduction(v) ==
    /\ EditorShown
    /\ SetState([React EXCEPT !.noiseReduction = v])
    /\ UNCHANGED inFlight
    /\ UNCHANGED <<client, link>>

SetArtisticEffect(effect) ==
    /\ EditorShown
    /\ SetState([React EXCEPT !.artisticEffect = effect])
    /\ UNCHANGED inFlight
    /\ UNCHANGED <<client, link>>

(* The user presses Download Image while the clock reads now. *)
HandleDownload(now) ==
    /\ DownloadButtonShown
    /\ ~ Falsy(enhancedImage)
    /\ link' = <<handleDownload(enhancedImage, now)>>
    /\ UNCHANGED <<app, client, computedFilter>>

Next ==
    \/ \E file \in Files : HandleFileSelect(file)
    \/ \E file \in readers : ReadSucceeds(file)
    \/ \E file \in readers : ReadFails(file)
    \/ HandleEnhanceClick
    \/ \E rq \in requests, remote \in RemoteOutcomes : EnhanceSettles(rq, remote)
    \/ HandleReset
    \/ HandleResetSettings
    \/ \E v \in BrightnessChoices : SetBrightness(v)
    \/ \E v \in ContrastChoices : SetContrast(v)
    \/ \E v \in NoiseReductionChoices : SetNoiseReduction(v)
    \/ \E effect \in EffectChoices : SetArtisticEffect(effect)

Spec == Init /\ [][Next]_vars

(* The ways the client's promise settles on the remote outcomes explored. *)
ClientSettlements == { enhanceImageWithGemini(remote) : remote \in RemoteOutcomes }

(* The remote service answers every call: the settling of each outstanding *)
(* call is not postponed forever.                                          *)
Answered ==
    \A id \in 1..MaxCalls :
       WF_vars(\E rq \in requests, settled \in ClientSettlements :
                  rq.id = id /\ EnhanceSettled(rq, settled))

LiveSpec == Spec /\ Answered

(***************************************************************************)
(* The client on its own: one call of enhanceImageWithGemini whose remote  *)
(* call comes back with any of ClientInputs.                               *)
(***************************************************************************)
InitClient ==
    /\ InitApp
    /\ remoteResult \in { <<r>> : r \in ClientInputs }
    /\ promise = << >>

ClientSettles ==
    /\ remoteResult # << >>
    /\ promise = << >>
    /\ promise' = <<enhanceImageWithGemini(remoteResult[1])>>
    /\ UNCHANGED <<app, remoteResult, page>>

NextClient == ClientSettles

ClientSpec == InitClient /\ [][NextClient]_vars

(***************************************************************************)
(* The prompt on its own: a PNG file is on screen, the sliders and the     *)
(* effect stand anywhere in their ranges, and the user presses Enhance.    *)
(***************************************************************************)
SliderPositions == {50, 99, 100, 101, 150}
NoisePositions == {0, 1, 50, 100}
PngFile == [type |-> <<"image/png">>, payload |-> "AAAA"]

InitPrompt ==
    /\ originalImage = ReadAsDataURL(PngFile)
    /\ originalMimeType = PngFile.type
    /\ enhancedImage = NULL
    /\ appState = "idle"
    /\ error = NULL
    /\ brightness \in SliderPositions
    /\ contrast \in SliderPositions
    /\ noiseReduction \in NoisePositions
    /\ artisticEffect \in ArtisticEffects
    /\ readers = {}
    /\ requests = {}
    /\ filesSelected = 1
    /\ callsIssued = 0
    /\ resetSince = {}
    /\ remoteResult = << >>
    /\ promise = << >>
    /\ computedFilter = ComputeFilter(brightness, contrast, artisticEffect)
    /\ link = << >>

NextPrompt == HandleEnhanceClick

PromptSpec == InitPrompt /\ [][NextPrompt]_vars

(***************************************************************************)
(* The preview on its own: a PNG file is on screen with the default        *)
(* settings, and the user moves the brightness and contrast sliders and    *)
(* picks effects.                                                          *)
(***************************************************************************)
InitPreview ==
    /\ InitPrompt
    /\ DefaultBrightness = brightness
    /\ DefaultContrast = contrast
    /\ DefaultNoiseReduction = noiseReduction
    /\ DefaultEffect = artisticEffect

NextPreview ==
    \/ \E v \in SliderPositions : SetBrightness(v)
    \/ \E v \in SliderPositions : SetContrast(v)
    \/ \E effect \in ArtisticEffects : SetArtisticEffect(effect)

PreviewSpec == InitPreview /\ [][NextPreview]_vars

(***************************************************************************)
(* The App with its download button.  Clock holds the readings of          *)
(* Date.now() tried, scaled down to fit 32-bit integers.                   *)
(***************************************************************************)
Clock == {1762000000, 1762000001}

NextDownload ==
    \/ Next
    \/ \E now \in Clock : HandleDownload(now)

DownloadSpec == Init /\ [][NextDownload]_vars


(***************************************************************************)
(* Properties.                                                             *)
(***************************************************************************)

(* A step in which the outstanding call rq comes back. *)
Settled(rq) == rq \in requests /\ rq \notin requests'


DefaultSettings ==
    /\ brightness = 100
    /\ contrast = 100
    /\ noiseReduction = 0
    /\ artisticEffect = "none"

(* C1: the response of a request that was outstanding when Start Over was  *)
(* pressed changes nothing when it arrives: appState, enhancedImage and    *)
(* error stay as they were.                                                *)
C1_StaleResponseIgnored ==
    [][\A rq \in requests :
          (rq.id \in resetSince /\ Settled(rq))
              => UNCHANGED <<appState, enhancedImage, error>>]_vars

(* C2: at most one call of the enhancement client is outstanding. *)
C2_SingleFlight == Cardinality(requests) <= 1

(* C3: while there is no source image the status is idle and the settings  *)
(* are the defaults.                                                       *)
C3_NoSourceIdleDefaults ==
    originalImage = NULL => (appState = "idle" /\ DefaultSettings)

(* C4: an enhanced image is held only in status success. *)
C4_EnhancedOnlyOnSuccess == enhancedImage # NULL => appState = "success"

(* C5: an error message is held only in status error. *)
C5_ErrorOnlyOnError == error # NULL => appState = "error"

(* C6: pressing Enhance Image while the image data or the MIME type is     *)
(* missing moves to status error with the validation message and calls     *)
(* the enhancement client not at all.                                      *)
C6_GuardFailure ==
    [][(HandleEnhanceClick /\ (Falsy(originalImage) \/ Falsy(originalMimeType)))
          => /\ appState' = "error"
             /\ error' = SelectFirstMessage
             /\ requests' = requests
             /\ callsIssued' = callsIssued]_vars

(* Enhance Image was pressed with an image on screen whose MIME type is    *)
(* the empty string, and the guard rejected it.                            *)
C6_Witness ==
    /\ ~ Falsy(originalImage)
    /\ originalMimeType = EMPTY
    /\ appState = "error"
    /\ error = SelectFirstMessage

(* C7: a failed read (error, then loadend) ends in status error with the   *)
(* read-error message.                                                     *)
C7_ReadFailureSurfaced ==
    [][\A file \in Files :
          ReadFails(file) => (appState' = "error" /\ error' = ReadErrorMessage)]_vars

(* C8: when the enhancement client rejects, the controller moves to status *)
(* error with the rejection's message as error; and no step arrives in     *)
(* status error without an error message (the initial status is idle).     *)
C8_RejectionSurfaced ==
    [][/\ appState' = "error" => error' # NULL
       /\ \A rq \in requests : Settled(rq) =>
             \A settled \in ClientSettlements :
                (EnhanceSettled(rq, settled) /\ ~ settled.resolved)
                    => /\ appState' = "error"
                       /\ error' = settled.error.message]_vars

(* A rejection of the client has been stored as the error. *)
C8_Witness ==
    /\ appState = "error"
    /\ error \in {RateLimitedMessage, FailedMessage}
    /\ callsIssued >= 1

(* The remote call failed: it threw, or its first candidate has no image part. *)
RemoteFailed(remote) ==
    \/ remote.kind = "throw"
    \/ /\ remote.kind = "response"
       /\ ~ \E i \in 1..Len(FirstCandidateParts(remote.response)) :
                "inlineData" \in DOMAIN FirstCandidateParts(remote.response)[i]

(* The remote call failed with HTTP 429. *)
IsRateLimit(remote) == remote.kind = "throw" /\ remote.thrown.status = 429

(* C9: when the remote call fails, the client rejects with the rate-limit  *)
(* message exactly when the failure was an HTTP 429; every other failure,  *)
(* a response without image included, gets another message.                *)
C9_RateLimitDistinguished ==
    (promise # << >> /\ RemoteFailed(remoteResult[1]))
        => /\ ~ promise[1].resolved
           /\ (promise[1].error.message = RateLimitedMessage <=> IsRateLimit(remoteResult[1]))

(* The positions of the parts of the first candidate that carry inline data. *)
C10_ImagePositions(response) ==
    IF "candidates" \in DOMAIN response /\ response.candidates # << >>
    THEN LET c == Head(response.candidates)
         IN IF "content" \in DOMAIN c /\ "parts" \in DOMAIN c.content
            THEN {i \in 1..Len(c.content.parts) : "inlineData" \in DOMAIN c.content.parts[i]}
            ELSE {}
    ELSE {}

(* C10: called with a response, the client resolves with the data URL of  *)
(* the first part of the first candidate that carries inline data; when    *)
(* there is no such part it rejects with the generic failure message.      *)
C10_FirstImagePart ==
    (promise # << >> /\ remoteResult[1].kind = "response")
        => LET response == remoteResult[1].response
               at == C10_ImagePositions(response)
           IN IF at = {}
              THEN /\ ~ promise[1].resolved
                   /\ promise[1].error.isError
                   /\ promise[1].error.message = FailedMessage
              ELSE LET first == CHOOSE i \in at : \A j \in at : i <= j
                       part == Head(response.candidates).content.parts[first]
                   IN /\ promise[1].resolved
                      /\ promise[1].value = <<"data:", part.inlineData.mimeType,
                                              ";base64", ",", part.inlineData.data>>

(* The client has rejected a response whose first candidate carries text   *)
(* only while its second candidate carries an image.                       *)
C10_Witness ==
    /\ promise # << >>
    /\ remoteResult[1].kind = "response"
    /\ remoteResult[1].response = [candidates |-> <<Candidate(<<TextPart>>), Candidate(<<PngPart>>)>>]
    /\ ~ promise[1].resolved


(* The responses explored that carry an image part in their first          *)
(* candidate, each with the MIME type and payload of the first such part   *)
(* and the way the client's promise settles on it.                         *)
C11_Resolutions ==
    { LET at == C10_ImagePositions(remote.response)
          first == CHOOSE i \in at : \A j \in at : i <= j
          part == Head(remote.response.candidates).content.parts[first]
      IN [mimeType |-> part.inlineData.mimeType,
          data |-> part.inlineData.data,
          settled |-> enhanceImageWithGemini(remote)] :
      remote \in { r \in RemoteOutcomes :
                      r.kind = "response" /\ C10_ImagePositions(r.response) # {} } }

(* C11: when a call settles on a response whose image part has MIME type M *)
(* and payload D, the controller moves to status success and stores as     *)
(* enhancedImage the blob data:M;base64,D.                                 *)
C11_ResolvedImageStored ==
    [][\A rq \in requests : Settled(rq) =>
          \A res \in C11_Resolutions :
             EnhanceSettled(rq, res.settled)
                 => /\ appState' = "success"
                    /\ enhancedImage' = <<"data:", res.mimeType, ";base64", ",", res.data>>]_vars

(* The JPEG part of a response is stored, declared as image/jpeg, and no   *)
(* call is outstanding.                                                    *)
C11_Witness ==
    /\ appState = "success"
    /\ enhancedImage = <<"data:", "image/jpeg", ";base64", ",", "JJJJ">>
    /\ requests = {}


(* The optional clauses of the prompt in their order, each with the        *)
(* condition under which it is present.                                    *)
C12_Clauses(b, c, n, effect) ==
    << [present |-> b # 100,
        text |-> <<" Adjust the brightness to be around ", ToString(b), "%.">>],
       [present |-> c # 100,
        text |-> <<" Adjust the contrast to be around ", ToString(c), "%.">>],
       [present |-> n > 0,
        text |-> <<" Apply noise reduction at an intensity of about ", ToString(n), "%.">>],
       [present |-> effect # "none",
        text |-> EffectClause(effect)] >>

RECURSIVE C12_Join(_)
C12_Join(clauses) ==
    IF clauses = << >> THEN << >>
    ELSE (IF Head(clauses).present THEN Head(clauses).text ELSE << >>)
         \o C12_Join(Tail(clauses))

(* C12: the prompt sent with a call is the base sentence followed, in      *)
(* order and by nothing else, by the brightness clause iff brightness is   *)
(* not 100, the contrast clause iff contrast is not 100, the noise clause  *)
(* iff noise reduction is above 0 and one effect clause iff the effect is  *)
(* not none; with the default settings it is the base sentence alone.      *)
C12_PromptClauses ==
    \A rq \in requests :
       /\ rq.prompt = BasePrompt
                        \o C12_Join(C12_Clauses(brightness, contrast, noiseReduction, artisticEffect))
       /\ Len(EffectClause(artisticEffect)) = (IF artisticEffect = "none" THEN 0 ELSE 1)
       /\ DefaultSettings => rq.prompt = BasePrompt

(* A call is outstanding whose prompt carries all four clauses. *)
C12_Witness ==
    /\ brightness = 150
    /\ contrast = 50
    /\ noiseReduction = 100
    /\ artisticEffect = "cartoon"
    /\ \E rq \in requests : Len(rq.prompt) = 11


(* The operations of a filter: its pieces between the blanks. *)
RECURSIVE C13_Operations(_)
C13_Operations(filter) ==
    IF \A i \in 1..Len(filter) : filter[i] # " "
    THEN <<filter>>
    ELSE LET k == CHOOSE i \in 1..Len(filter) :
                     filter[i] = " " /\ \A j \in 1..(i-1) : filter[j] # " "
         IN <<SubSeq(filter, 1, k-1)>> \o C13_Operations(SubSeq(filter, k+1, Len(filter)))

(* The operations each effect adds to the preview. *)
C13_EffectOperations ==
    [effect \in ArtisticEffects |->
        CASE effect = "none" -> << >>
          [] effect = "vintage" -> << <<"sepia(60%)">> >>
          [] effect = "bw" -> << <<"grayscale(100%)">> >>
          [] effect = "sepia" -> << <<"sepia(100%)">> >>
          [] effect = "sketch" ->
                << <<"grayscale(100%)">>, <<"contrast(150%)">>, <<"brightness(110%)">> >>
          [] effect = "oil-painting" -> << <<"saturate(180%)">>, <<"contrast(130%)">> >>
          [] effect = "cartoon" -> << <<"saturate(200%)">>, <<"contrast(150%)">> >>]

C13_EffectCount ==
    [effect \in ArtisticEffects |->
        CASE effect = "none" -> 0
          [] effect \in {"vintage", "bw", "sepia"} -> 1
          [] effect \in {"oil-painting", "cartoon"} -> 2
          [] effect = "sketch" -> 3]

(* C13: the preview filter is brightness(b%), contrast(c%), then exactly   *)
(* the operations of the chosen effect; it has 2 operations plus the       *)
(* effect's 0, 1, 2 or 3.                                                  *)
C13_PreviewFilter ==
    computedFilter # NULL =>
       LET ops == C13_Operations(computedFilter)
       IN /\ ops = << <<"brightness(", ToString(brightness), "%)">>,
                      <<"contrast(", ToString(contrast), "%)">> >>
                   \o C13_EffectOperations[artisticEffect]
          /\ Len(ops) = 2 + C13_EffectCount[artisticEffect]
          /\ Len(C13_EffectOperations[artisticEffect]) = C13_EffectCount[artisticEffect]

(* The preview shows the sketch effect with both sliders moved. *)
C13_Witness ==
    /\ computedFilter # NULL
    /\ artisticEffect = "sketch"
    /\ brightness = 150
    /\ contrast = 50
    /\ Len(C13_Operations(computedFilter)) = 5


(* C14: Reset Settings, the completion of an upload and Start Over each    *)
(* leave brightness 100, contrast 100, noise reduction 0 and effect none.  *)
C14_ResetsRestoreDefaults ==
    [][(\/ HandleResetSettings
        \/ HandleReset
        \/ \E file \in readers : ReadSucceeds(file))
          => DefaultSettings']_vars

(* The settings are back at their defaults while a call issued with other  *)
(* settings is still outstanding.                                          *)
C14_Witness ==
    /\ DefaultSettings
    /\ \E rq \in requests : rq.prompt # BasePrompt

(* The extensions that fit a MIME type. *)
C15_Extensions(mimeType) ==
    CASE mimeType = "image/jpeg" -> {".jpg", ".jpeg"}
      [] mimeType = "image/png" -> {".png"}
      [] OTHER -> {}

(* C15: a download is named enhanced-image-<timestamp> with the extension  *)
(* of the MIME type its image declares.                                    *)
C15_DownloadExtension ==
    link # << >> =>
       LET a == link[1]
       IN /\ Len(a.download) = 3
          /\ a.download[1] = "enhanced-image-"
          /\ \E now \in Clock : a.download[2] = ToString(now)
          /\ a.download[3] \in C15_Extensions(a.href[2])


(* A step of the adjustment controls: a slider, an effect button or Reset  *)
(* Settings.                                                               *)
C16_Adjustment ==
    \/ \E v \in BrightnessChoices : SetBrightness(v)
    \/ \E v \in ContrastChoices : SetContrast(v)
    \/ \E v \in NoiseReductionChoices : SetNoiseReduction(v)
    \/ \E effect \in EffectChoices : SetArtisticEffect(effect)
    \/ HandleResetSettings

(* C16: a slider, an effect button and Reset Settings change the settings  *)
(* only: the status, the source image and its MIME type, the enhanced      *)
(* image, the error and the outstanding calls with their prompts stay.     *)
C16_AdjustmentFrame ==
    [][C16_Adjustment =>
          UNCHANGED <<appState, originalImage, originalMimeType, enhancedImage,
                      error, requests>>]_vars

(* The status is loading and the settings no longer are the ones the       *)
(* outstanding call was issued with.                                       *)
C16_Witness ==
    /\ appState = "loading"
    /\ \E rq \in requests :
          /\ rq.id = callsIssued
          /\ rq.prompt # BuildPrompt(brightness, contrast, noiseReduction, artisticEffect)

(* The call whose click set the status to loading. *)
C17_Current == { rq \in requests : rq.id = callsIssued }

(* C17: while the status is loading the call that set it is outstanding,   *)
(* and when the service answers every call a status of loading is always   *)
(* followed by success, error or idle.                                     *)
C17_LoadingEnds ==
    /\ [](appState = "loading" => C17_Current # {})
    /\ (appState = "loading") ~> (appState \in {"success", "error", "idle"})

(* The status is loading with two calls outstanding, an earlier one and    *)
(* the one that set it.                                                    *)
C17_Witness ==
    /\ appState = "loading"
    /\ C17_Current # {}
    /\ requests \ C17_Current # {}

(* C18: an enhanced image on screen is the result of the most recently     *)
(* issued call, and that call was issued for the source image on screen.   *)
C18_EnhancedFromCurrentSource ==
    [][\A rq \in requests :
          (Settled(rq) /\ EditorShown' /\ enhancedImage' # NULL)
             => /\ rq.id = callsIssued
                /\ rq.base64ImageData = Base64Data(originalImage')
                /\ rq.mimeType = originalMimeType']_vars

(* C19: the stored image data and the stored MIME type are both absent or  *)
(* both those of one selected file, and the guard of Enhance rejects only  *)
(* when no image is on screen.                                             *)
C19_ImageAndTypeTogether ==
    /\ \/ originalImage = NULL /\ originalMimeType = NULL
       \/ \E file \in Files :
             /\ originalImage = ReadAsDataURL(file)
             /\ originalMimeType = file.type
             /\ ~ Falsy(originalImage)
             /\ ~ Falsy(originalMimeType)
    /\ NoImageSelected(originalImage, originalMimeType) => ~ EditorShown

====
